---- MODULE Spec2Model ----
(***************************************************************************)
(* A model of wxdatatypes.py (python-metar): the dimensioned quantities    *)
(* temperature, pressure, speed, distance and direction.                   *)
(*                                                                         *)
(* The module is Python 2 code (dict.has_key, dict.iteritems), so '/' on   *)
(* two ints is floor division and round() rounds halves away from zero.    *)
(*                                                                         *)
(* Python strings are TLA+ strings.  Python's None and "argument omitted"  *)
(* are the empty tuple <<>>; a present value x is <<x>>.                   *)
(*                                                                         *)
(* A Python float is an exact rational n/d in lowest terms (or nan, inf,   *)
(* -inf): binary rounding error and the sign of zero are not modelled.     *)
(* A product too large for the model checker's integers is kept as a       *)
(* rational with a second, unevaluated factor xn/xd.                       *)
(***************************************************************************)
EXTENDS Integers, Sequences, FiniteSets, TLC

\* Length bound of the tokens enumerated over Chars.
MaxLen == 2
\* Number of concurrent callers of direction.compass().
NumReaders == 2

----------------------------------------------------------------------------
(* Strings *)

None == <<>>
Some(x) == <<x>>

Char(s, i) == SubSeq(s, i, i)

startswith(s, p) == Len(s) >= Len(p) /\ SubSeq(s, 1, Len(p)) = p

DropFirst(s) == SubSeq(s, 2, Len(s))

LowerLetters == "abcdefghijklmnopqrstuvwxyz"
UpperLetters == "ABCDEFGHIJKLMNOPQRSTUVWXYZ"

UpperChar(c) ==
  IF \E i \in 1..26 : Char(LowerLetters, i) = c
  THEN Char(UpperLetters, CHOOSE i \in 1..26 : Char(LowerLetters, i) = c)
  ELSE c

RECURSIVE upper(_)
upper(s) == IF s = "" THEN "" ELSE UpperChar(Char(s, 1)) \o upper(DropFirst(s))

DigitChars == "0123456789"

IsDigit(c) == \E i \in 1..10 : Char(DigitChars, i) = c

DigitVal(c) == (CHOOSE i \in 1..10 : Char(DigitChars, i) = c) - 1

\* \d+ : a non-empty run of digits
IsDigits(s) == Len(s) > 0 /\ \A i \in 1..Len(s) : IsDigit(Char(s, i))

\* int() of a run of digits
RECURSIVE int(_)
int(s) ==
  IF s = "" THEN 0
  ELSE 10 * int(SubSeq(s, 1, Len(s) - 1)) + DigitVal(Char(s, Len(s)))

RECURSIVE strip(_)
strip(s) ==
  IF s = "" THEN s
  ELSE IF Char(s, 1) = " " THEN strip(DropFirst(s))
  ELSE IF Char(s, Len(s)) = " " THEN strip(SubSeq(s, 1, Len(s) - 1))
  ELSE s

RECURSIVE Pow10(_)
Pow10(k) == IF k = 0 THEN 1 ELSE 10 * Pow10(k - 1)

----------------------------------------------------------------------------
(* Floats *)

Abs(x) == IF x < 0 THEN -x ELSE x

RECURSIVE GCD(_, _)
GCD(a, b) == IF b = 0 THEN a ELSE GCD(b, a % b)

\* a * b is representable by the model checker
Fits(a, b) == a = 0 \/ b = 0 \/ Abs(a) <= 2147483647 \div Abs(b)

Rat(n, d) ==
  LET g == GCD(Abs(n), Abs(d))
      s == IF d < 0 THEN -1 ELSE 1
  IN  [k |-> "fin", n |-> s * (n \div g), d |-> s * (d \div g), xn |-> 1, xd |-> 1]

NaN == [k |-> "nan", n |-> 0, d |-> 1, xn |-> 1, xd |-> 1]
Inf == [k |-> "inf", n |-> 1, d |-> 1, xn |-> 1, xd |-> 1]
NegInf == [k |-> "inf", n |-> -1, d |-> 1, xn |-> 1, xd |-> 1]

IsFinite(x) == x.k = "fin"

\* unary minus
Neg(x) == [x EXCEPT !.n = -x.n]

\* x + cn/cd and x - cn/cd
FAdd(x, cn, cd) ==
  IF ~IsFinite(x) THEN x ELSE Rat(x.n * cd + cn * x.d, x.d * cd)

FSub(x, cn, cd) == FAdd(x, -cn, cd)

\* x * cn/cd for a positive constant cn/cd in lowest terms
FMul(x, cn, cd) ==
  IF ~IsFinite(x) THEN x
  ELSE IF x.n = 0 THEN x
  ELSE LET g1 == GCD(Abs(x.n), cd)
           g2 == GCD(cn, x.d)
           n1 == x.n \div g1
           d1 == x.d \div g2
           c1 == cn \div g2
           c2 == cd \div g1
       IN  IF x.xn = 1 /\ x.xd = 1 /\ Fits(n1, c1) /\ Fits(d1, c2)
           THEN Rat(n1 * c1, d1 * c2)
           ELSE LET h1 == GCD(x.xn, c2)
                    h2 == GCD(c1, x.xd)
                IN  [k |-> "fin", n |-> n1, d |-> d1,
                     xn |-> (x.xn \div h1) * (c1 \div h2),
                     xd |-> (x.xd \div h2) * (c2 \div h1)]

\* x / (cn/cd)
FDiv(x, cn, cd) == FMul(x, cd, cn)

\* x < cn/cd and x > cn/cd ; every comparison with nan is false
FLess(x, cn, cd) ==
  IF x.k = "nan" THEN FALSE
  ELSE IF x.k = "inf" THEN x.n < 0
  ELSE x.n * cd < cn * x.d

FGreater(x, cn, cd) ==
  IF x.k = "nan" THEN FALSE
  ELSE IF x.k = "inf" THEN x.n > 0
  ELSE x.n * cd > cn * x.d

\* int(x): truncation toward zero
Trunc(x) == IF x.n >= 0 THEN x.n \div x.d ELSE -((-x.n) \div x.d)

\* round(x) with halves going to the even neighbour, as Python 3 rounds
round_half_even(x) ==
  IF ~IsFinite(x) THEN x
  ELSE LET fl == IF x.n >= 0 THEN x.n \div x.d ELSE -((-x.n + x.d - 1) \div x.d)
           r2 == 2 * (x.n - fl * x.d)
       IN  IF r2 > x.d \/ (r2 = x.d /\ fl % 2 = 1) THEN Rat(fl + 1, 1) ELSE Rat(fl, 1)

\* Python 2 round(x): the nearest integer, halves away from zero
round(x) ==
  IF ~IsFinite(x) THEN x
  ELSE IF x.n >= 0 THEN Rat((2 * x.n + x.d) \div (2 * x.d), 1)
  ELSE Rat(-((2 * (-x.n) + x.d) \div (2 * x.d)), 1)

\* the decimal digits of a run of digits and dots with exactly one dot or none
DecimalValue(s) ==
  LET dots == {i \in 1..Len(s) : Char(s, i) = "."}
      p    == IF dots = {} THEN Len(s) + 1 ELSE CHOOSE i \in dots : TRUE
      ip   == SubSeq(s, 1, p - 1)
      fp   == SubSeq(s, p + 1, Len(s))
  IN  Rat(int(ip \o fp), Pow10(Len(fp)))

IsDecimal(s) ==
  /\ \A i \in 1..Len(s) : IsDigit(Char(s, i)) \/ Char(s, i) = "."
  /\ Cardinality({i \in 1..Len(s) : Char(s, i) = "."}) <= 1
  /\ \E i \in 1..Len(s) : IsDigit(Char(s, i))

\* float(s) of a string: None stands for ValueError.  Surrounding blanks are
\* ignored, one sign is allowed, then nan, inf, infinity or a decimal.
\* (Exponents are not modelled: no enumerated token holds an 'e'.)
float(s) ==
  LET t    == strip(s)
      sgn  == IF startswith(t, "-") THEN -1 ELSE 1
      body == IF startswith(t, "-") \/ startswith(t, "+") THEN DropFirst(t) ELSE t
  IN  IF upper(body) = "NAN" THEN Some(NaN)
      ELSE IF upper(body) \in {"INF", "INFINITY"}
        THEN Some(IF sgn < 0 THEN NegInf ELSE Inf)
      ELSE IF IsDecimal(body)
        THEN Some(IF sgn < 0 THEN Neg(DecimalValue(body)) ELSE DecimalValue(body))
      ELSE None

RECURSIVE ZeroPad(_, _)
ZeroPad(s, w) == IF Len(s) >= w THEN s ELSE ZeroPad("0" \o s, w)

\* "%.<k>f" % x : k decimals, round-half-even on the exact value
Fmt(k, x) ==
  IF x.k = "nan" THEN "nan"
  ELSE IF x.k = "inf" THEN (IF x.n < 0 THEN "-inf" ELSE "inf")
  ELSE LET a   == Abs(x.n)
           p   == Pow10(k)
           ip  == a \div x.d
           r   == a % x.d
       IN  IF x.xn = 1 /\ x.xd = 1 /\ Fits(r, p) /\ Fits(ip + 1, p)
           THEN LET f   == (r * p) \div x.d
                    rem == (r * p) % x.d
                    tot == ip * p + f
                    up  == IF rem > x.d - rem \/ (rem = x.d - rem /\ tot % 2 = 1)
                           THEN 1 ELSE 0
                    q   == tot + up
                IN  (IF x.n < 0 THEN "-" ELSE "")
                    \o ToString(q \div p)
                    \o (IF k = 0 THEN "" ELSE "." \o ZeroPad(ToString(q % p), k))
           ELSE "%." \o ToString(k) \o "f(" \o ToString(x.n) \o "/" \o ToString(x.d)
                \o "*" \o ToString(x.xn) \o "/" \o ToString(x.xd) \o ")"

----------------------------------------------------------------------------
(* Instances and results *)

\* An instance: cls names its class, "" when there is none.  value = None
\* stands for an instance whose _value attribute was never assigned; units
\* and degrees are None in the classes that have no such attribute.
NoObj ==
  [cls |-> "", units |-> None, value |-> None, gtlt |-> None,
   num |-> None, den |-> None, compass |-> None, degrees |-> None]

\* What a call returned: exc = "" and the value, or the exception raised.
Return(x) == [exc |-> "", val |-> Some(x)]
Raise(e) == [exc |-> e, val |-> None]

\* `not x` for x None or a string
Falsy(x) == x = None \/ x[1] = ""

\* `x` as a condition, for x None or an int
Truthy(x) == x # None /\ x[1] # 0

----------------------------------------------------------------------------
(* class temperature *)

temperature_legal_units == {"F", "C", "K"}

temperature_init(value, units) ==
  LET u == IF units = None THEN "C" ELSE units[1]
      self == [NoObj EXCEPT !.cls = "temperature", !.units = Some(upper(u))]
  IN  IF upper(u) \notin temperature_legal_units THEN Raise("UnitsError")
      ELSE IF float(value) # None
        THEN Return([self EXCEPT !.value = float(value)])
      ELSE IF startswith(value, "M")
        THEN IF float(DropFirst(value)) = None THEN Raise("ValueError")
             ELSE Return([self EXCEPT !.value = Some(Neg(float(DropFirst(value))[1]))])
      ELSE Return(self)

temperature_value(self, units) ==
  IF self.value = None THEN
    (IF units # None /\ upper(units[1]) \notin temperature_legal_units
     THEN Raise("UnitsError") ELSE Raise("AttributeError"))
  ELSE IF units = None THEN Return(self.value[1])
  ELSE IF upper(units[1]) \notin temperature_legal_units THEN Raise("UnitsError")
  ELSE LET u == upper(units[1])
           v == self.value[1]
           celsius_value ==
             IF self.units[1] = "C" THEN v
             ELSE IF self.units[1] = "F" THEN FDiv(FSub(v, 32, 1), 9, 5)
             ELSE FSub(v, 5463, 20)
       IN  IF u = "C" THEN Return(celsius_value)
           ELSE IF u = "K" THEN Return(FAdd(celsius_value, 5463, 20))
           ELSE Return(FAdd(FMul(celsius_value, 9, 5), 32, 1))

temperature_string(self, units) ==
  IF units # None /\ upper(units[1]) \notin temperature_legal_units
  THEN Raise("UnitsError")
  ELSE LET u == IF units = None THEN self.units[1] ELSE upper(units[1])
           val == temperature_value(self, Some(u))
       IN  IF val.exc # "" THEN val
           ELSE Return(Fmt(1, val.val[1]) \o " " \o u)

----------------------------------------------------------------------------
(* class pressure *)

pressure_legal_units == {"MB", "HPA", "IN"}

pressure_init(value, units) ==
  LET u == IF units = None THEN "MB" ELSE units[1]
  IN  IF upper(u) \notin pressure_legal_units THEN Raise("UnitsError")
      ELSE IF float(value) = None THEN Raise("ValueError")
      ELSE Return([NoObj EXCEPT !.cls = "pressure", !.value = float(value),
                                !.units = Some(upper(u))])

pressure_value(self, units) ==
  IF units = None THEN Return(self.value[1])
  ELSE IF upper(units[1]) \notin pressure_legal_units THEN Raise("UnitsError")
  ELSE LET u == upper(units[1])
           v == self.value[1]
           mb_value == IF self.units[1] = "IN" THEN FMul(v, 1693199, 50000) ELSE v
       IN  IF u = self.units[1] THEN Return(v)
           ELSE IF u = "MB" \/ u = "HPA" THEN Return(mb_value)
           ELSE Return(FDiv(mb_value, 1693199, 50000))

pressure_string(self, units) ==
  IF ~Falsy(units) /\ upper(units[1]) \notin pressure_legal_units
  THEN Raise("UnitsError")
  ELSE LET u == IF Falsy(units) THEN self.units[1] ELSE upper(units[1])
           val == pressure_value(self, Some(u)).val[1]
       IN  IF u = "MB" THEN Return(Fmt(1, val) \o " mb")
           ELSE IF u = "HPA" THEN Return(Fmt(1, val) \o " hPa")
           ELSE Return(Fmt(2, val) \o " inches")

----------------------------------------------------------------------------
(* class speed *)

speed_legal_units == {"KT", "MPS", "KMH", "MPH"}
speed_legal_gtlt == {">", "<"}

speed_init(value, units, gtlt) ==
  LET u == IF Falsy(units) THEN "MPS" ELSE upper(units[1])
  IN  IF ~Falsy(units) /\ upper(units[1]) \notin speed_legal_units
        THEN Raise("UnitsError")
      ELSE IF ~Falsy(gtlt) /\ gtlt[1] \notin speed_legal_gtlt
        THEN Raise("ValueError")
      ELSE IF float(value) = None THEN Raise("ValueError")
      ELSE Return([NoObj EXCEPT !.cls = "speed", !.units = Some(u),
                                !.gtlt = gtlt, !.value = float(value)])

\* With self._units "KMH" the code divides the string self._units by 3.6
\* (TypeError); with "MPH" it assigns mbs_value and then reads the unbound
\* mps_value (UnboundLocalError).
speed_value(self, units) ==
  IF Falsy(units) THEN Return(self.value[1])
  ELSE IF upper(units[1]) \notin speed_legal_units THEN Raise("UnitsError")
  ELSE LET u == upper(units[1])
           v == self.value[1]
           mps_value == IF self.units[1] = "KT" THEN FMul(v, 128611, 250000) ELSE v
       IN  IF u = self.units[1] THEN Return(v)
           ELSE IF self.units[1] = "KMH" THEN Raise("TypeError")
           ELSE IF self.units[1] = "MPH" THEN Raise("UnboundLocalError")
           ELSE IF u = "KMH" THEN Return(FMul(mps_value, 18, 5))
           ELSE IF u = "KT" THEN Return(FDiv(mps_value, 128611, 250000))
           ELSE IF u = "MPH" THEN Return(FDiv(mps_value, 447, 1000))
           ELSE Return(mps_value)

gtlt_prefix(self, text) ==
  IF self.gtlt = Some(">") THEN "greater than " \o text
  ELSE IF self.gtlt = Some("<") THEN "less than " \o text
  ELSE text

speed_string(self, units) ==
  IF ~Falsy(units) /\ upper(units[1]) \notin speed_legal_units
  THEN Raise("UnitsError")
  ELSE LET u == IF Falsy(units) THEN self.units[1] ELSE upper(units[1])
           val == speed_value(self, Some(u))
           text == IF u = "KMH" THEN Fmt(0, val.val[1]) \o " km/h"
                   ELSE IF u = "KT" THEN Fmt(0, val.val[1]) \o " knots"
                   ELSE IF u = "MPH" THEN Fmt(0, val.val[1]) \o " mph"
                   ELSE Fmt(1, val.val[1]) \o " mps"
       IN  IF val.exc # "" THEN val ELSE Return(gtlt_prefix(self, text))

----------------------------------------------------------------------------
(* class distance *)

RECURSIVE RStrip(_)
RStrip(s) ==
  IF s # "" /\ Char(s, Len(s)) = " " THEN RStrip(SubSeq(s, 1, Len(s) - 1)) ELSE s

\* the longest run of digits that ends s
RECURSIVE DigitSuffix(_)
DigitSuffix(s) ==
  IF s # "" /\ IsDigit(Char(s, Len(s)))
  THEN DigitSuffix(SubSeq(s, 1, Len(s) - 1)) \o Char(s, Len(s))
  ELSE ""

\* FRACTION_RE.match(s): None, or the groups int (None when absent), num, den
\* of ^((?P<int>\d+)\s+)?(?P<num>\d+)/(?P<den>\d+)$ ; the blank is the only
\* white space among the enumerated characters.
FRACTION_RE(s) ==
  LET slashes == {i \in 1..Len(s) : Char(s, i) = "/"}
      p    == CHOOSE i \in slashes : TRUE
      head == SubSeq(s, 1, p - 1)
      den  == SubSeq(s, p + 1, Len(s))
      num  == DigitSuffix(head)
      rest == SubSeq(head, 1, Len(head) - Len(num))
  IN  IF Cardinality(slashes) # 1 THEN None
      ELSE IF ~IsDigits(den) \/ num = "" THEN None
      ELSE IF rest = "" THEN Some([int |-> None, num |-> num, den |-> den])
      ELSE IF RStrip(rest) # rest /\ IsDigits(RStrip(rest))
        THEN Some([int |-> Some(RStrip(rest)), num |-> num, den |-> den])
      ELSE None

distance_legal_units == {"SM", "MI", "M", "KM", "FT"}
distance_legal_gtlt == {">", "<"}

\* distance.__init__ with an explicit gtlt argument winning over the prefix
distance_init_explicit_gtlt(value, units, gtlt) ==
  LET u  == IF Falsy(units) THEN "M" ELSE upper(units[1])
      v1 == IF startswith(value, "M") \/ startswith(value, "P")
            THEN DropFirst(value) ELSE value
      g1 == IF ~Falsy(gtlt) THEN gtlt
            ELSE IF startswith(value, "M") THEN Some("<")
            ELSE IF startswith(value, "P") THEN Some(">")
            ELSE gtlt
      self == [NoObj EXCEPT !.cls = "distance", !.units = Some(u), !.gtlt = g1]
      df == FRACTION_RE(v1)[1]
  IN  IF ~Falsy(units) /\ upper(units[1]) \notin distance_legal_units
        THEN Raise("UnitsError")
      ELSE IF ~Falsy(g1) /\ g1[1] \notin distance_legal_gtlt
        THEN Raise("ValueError")
      ELSE IF float(v1) # None THEN Return([self EXCEPT !.value = float(v1)])
      ELSE IF FRACTION_RE(v1) = None THEN Raise("ValueError")
      ELSE IF int(df.den) = 0 THEN Raise("ZeroDivisionError")
      ELSE Return([self EXCEPT
             !.num = Some(int(df.num)),
             !.den = Some(int(df.den)),
             !.value = Some(IF df.int # None
                            THEN FAdd(Rat(int(df.num), int(df.den)), int(df.int[1]), 1)
                            ELSE Rat(int(df.num), int(df.den)))])

\* distance.__init__ without lines 222-223: the integer part is not added
distance_init_no_int(value, units, gtlt) ==
  LET u  == IF Falsy(units) THEN "M" ELSE upper(units[1])
      v1 == IF startswith(value, "M") \/ startswith(value, "P")
            THEN DropFirst(value) ELSE value
      g1 == IF startswith(value, "M") THEN Some("<")
            ELSE IF startswith(value, "P") THEN Some(">")
            ELSE gtlt
      self == [NoObj EXCEPT !.cls = "distance", !.units = Some(u), !.gtlt = g1]
      df == FRACTION_RE(v1)[1]
  IN  IF ~Falsy(units) /\ upper(units[1]) \notin distance_legal_units
        THEN Raise("UnitsError")
      ELSE IF ~Falsy(g1) /\ g1[1] \notin distance_legal_gtlt
        THEN Raise("ValueError")
      ELSE IF float(v1) # None THEN Return([self EXCEPT !.value = float(v1)])
      ELSE IF FRACTION_RE(v1) = None THEN Raise("ValueError")
      ELSE IF int(df.den) = 0 THEN Raise("ZeroDivisionError")
      ELSE Return([self EXCEPT
             !.num = Some(int(df.num)),
             !.den = Some(int(df.den)),
             !.value = Some(Rat(int(df.num), int(df.den)))])

distance_init(value, units, gtlt) ==
  LET u  == IF Falsy(units) THEN "M" ELSE upper(units[1])
      v1 == IF startswith(value, "M") \/ startswith(value, "P")
            THEN DropFirst(value) ELSE value
      g1 == IF startswith(value, "M") THEN Some("<")
            ELSE IF startswith(value, "P") THEN Some(">")
            ELSE gtlt
      self == [NoObj EXCEPT !.cls = "distance", !.units = Some(u), !.gtlt = g1]
      df == FRACTION_RE(v1)[1]
  IN  IF ~Falsy(units) /\ upper(units[1]) \notin distance_legal_units
        THEN Raise("UnitsError")
      ELSE IF ~Falsy(g1) /\ g1[1] \notin distance_legal_gtlt
        THEN Raise("ValueError")
      ELSE IF float(v1) # None THEN Return([self EXCEPT !.value = float(v1)])
      ELSE IF FRACTION_RE(v1) = None THEN Raise("ValueError")
      ELSE IF int(df.den) = 0 THEN Raise("ZeroDivisionError")
      ELSE Return([self EXCEPT
             !.num = Some(int(df.num)),
             !.den = Some(int(df.den)),
             !.value = Some(IF df.int # None
                            THEN FAdd(Rat(int(df.num), int(df.den)), int(df.int[1]), 1)
                            ELSE Rat(int(df.num), int(df.den)))])

distance_value(self, units) ==
  IF Falsy(units) THEN Return(self.value[1])
  ELSE IF upper(units[1]) \notin distance_legal_units THEN Raise("UnitsError")
  ELSE LET u == upper(units[1])
           v == self.value[1]
           m_value ==
             IF self.units[1] = "SM" \/ self.units[1] = "MI" THEN FMul(v, 201168, 125)
             ELSE IF self.units[1] = "FT" THEN FDiv(v, 82021, 25000)
             ELSE IF self.units[1] = "KM" THEN FMul(v, 1000, 1)
             ELSE v
       IN  IF u = self.units[1] THEN Return(v)
           ELSE IF u = "SM" \/ u = "MI" THEN Return(FDiv(m_value, 201168, 125))
           ELSE IF u = "FT" THEN Return(FMul(m_value, 82021, 25000))
           ELSE IF u = "KM" THEN Return(FDiv(m_value, 1000, 1))
           ELSE Return(m_value)

distance_string(self, units) ==
  IF ~Falsy(units) /\ upper(units[1]) \notin distance_legal_units
  THEN Raise("UnitsError")
  ELSE LET u == IF Falsy(units) THEN self.units[1] ELSE upper(units[1])
           \* self._num/self._den divides two ints: floor division
           val == Trunc(FSub(self.value[1], self.num[1] \div self.den[1], 1))
           text ==
             IF Truthy(self.num) /\ Truthy(self.den) /\ u = self.units[1]
             THEN IF val # 0
                  THEN ToString(val) \o " " \o ToString(self.num[1]) \o "/"
                       \o ToString(self.den[1])
                  ELSE ToString(self.num[1]) \o "/" \o ToString(self.den[1])
             ELSE IF u = "KM" THEN Fmt(1, distance_value(self, Some(u)).val[1])
             ELSE Fmt(0, distance_value(self, Some(u)).val[1])
           word ==
             IF u = "SM" \/ u = "MI" THEN " miles"
             ELSE IF u = "M" THEN " meters"
             ELSE IF u = "KM" THEN " km"
             ELSE " feet"
       IN  Return(gtlt_prefix(self, text \o word))

----------------------------------------------------------------------------
(* class direction *)

compass_dirs ==
  "N" :> Rat(0, 1) @@ "NNE" :> Rat(225, 10) @@ "NE" :> Rat(45, 1)
  @@ "ENE" :> Rat(675, 10) @@ "E" :> Rat(90, 1) @@ "ESE" :> Rat(1125, 10)
  @@ "SE" :> Rat(135, 1) @@ "SSE" :> Rat(1575, 10) @@ "S" :> Rat(180, 1)
  @@ "SSW" :> Rat(2025, 10) @@ "SW" :> Rat(225, 1) @@ "WSW" :> Rat(2475, 10)
  @@ "W" :> Rat(270, 1) @@ "WNW" :> Rat(2925, 10) @@ "NW" :> Rat(315, 1)
  @@ "NNW" :> Rat(3375, 10)

direction_init(d) ==
  LET self == [NoObj EXCEPT !.cls = "direction"]
  IN  IF d \in DOMAIN compass_dirs
        THEN Return([self EXCEPT !.compass = Some(d), !.degrees = Some(compass_dirs[d])])
      ELSE IF float(d) = None THEN Raise("ValueError")
      ELSE IF FLess(float(d)[1], 0, 1) \/ FGreater(float(d)[1], 360, 1)
        THEN Raise("ValueError")
      ELSE Return([self EXCEPT !.degrees = float(d)])

direction_value(self) == Return(self.degrees[1])

direction_string(self) == Return(Fmt(0, self.degrees[1]) \o " degrees")

\* compass(), line 316: degrees = 22.5 * round(self._degrees/22.5)
compass_round(self) == FMul(round(FDiv(self.degrees[1], 45, 2)), 45, 2)

\* compass() also storing the rounded degrees in self._degrees
compass_store_degrees(self, degrees) ==
  IF degrees = Rat(360, 1)
    THEN [self EXCEPT !.compass = Some("N"), !.degrees = Some(degrees)]
  ELSE IF \E name \in DOMAIN compass_dirs : compass_dirs[name] = degrees
    THEN [self EXCEPT !.degrees = Some(degrees), !.compass =
            Some(CHOOSE name \in DOMAIN compass_dirs : compass_dirs[name] = degrees)]
  ELSE self

\* compass(), lines 317-323: the instance after the memo is written, if it is
compass_store(self, degrees) ==
  IF degrees = Rat(360, 1) THEN [self EXCEPT !.compass = Some("N")]
  ELSE IF \E name \in DOMAIN compass_dirs : compass_dirs[name] = degrees
    THEN [self EXCEPT !.compass =
            Some(CHOOSE name \in DOMAIN compass_dirs : compass_dirs[name] = degrees)]
  ELSE self

----------------------------------------------------------------------------
(* The callers' inputs *)

Chars == {"M", "P", "-", ".", "/", "0", "3"}

RECURSIVE Strings(_)
Strings(n) ==
  IF n = 0 THEN {""}
  ELSE Strings(n - 1) \cup {s \o c : s \in Strings(n - 1), c \in Chars}

\* Longer tokens: fractions with and without an integer part and a prefix,
\* compass names, degrees on and between the 22.5 degree marks, nan and inf.
ExtraTokens ==
  {"3/3", "0/3", "3/0", "6/3", "1/4", "M1/4", "P0/3", "1 3/4", "M1 3/4",
   "P2 6/3", "3 0/4", "1  1/2", "5 1/0", "M05", "10", "25", "1500", "1013.25",
   "N", "NE", "SSW", "22.5", "45", "337.5", "11.25", "33.75", "348.75",
   "359", "360", "361", "nan", "inf", "-inf", " 3", "3 ", "M 3", "3 /3"}

Tokens == Strings(MaxLen) \cup ExtraTokens

\* The units argument: omitted, empty, every legal symbol, one of them in
\* lower case, and a symbol of no class.
UnitArgs(legal_units, lower) ==
  {None, Some(""), Some(lower), Some("ATM")} \cup {Some(u) : u \in legal_units}

GtltArgs == {None, Some(""), Some(">"), Some("<"), Some("=")}

Readers == 1..NumReaders

----------------------------------------------------------------------------
(* The state machine: one constructor call, then any calls of the methods of
   the instance it returned; compass() runs in steps, for each of Readers. *)

VARIABLES
  self,      \* the instance the constructor returned, NoObj before and if it raised
  ctor,      \* the constructor call: class, arguments and the exception raised
  out,       \* the call of value() or string() that has just returned, NoOut
             \* once its caller has taken the outcome
  pc,        \* where each reader is in compass()
  degrees,   \* each reader's local variable degrees in compass()
  returned   \* every value a call of compass() has returned

vars == <<self, ctor, out, pc, degrees, returned>>

NoCtor == [cls |-> "", value |-> "", units |-> None, gtlt |-> None, exc |-> ""]
NoOut == [op |-> "", units |-> None, exc |-> "", val |-> None, text |-> None]

Init ==
  /\ self = NoObj
  /\ ctor = NoCtor
  /\ out = NoOut
  /\ pc = [r \in Readers |-> "idle"]
  /\ degrees = [r \in Readers |-> None]
  /\ returned = {}

\* A constructor call with result res
Construct(cls, value, units, gtlt, res) ==
  /\ ctor' = [cls |-> cls, value |-> value, units |-> units, gtlt |-> gtlt,
              exc |-> res.exc]
  /\ self' = IF res.exc = "" THEN res.val[1] ELSE NoObj
  /\ UNCHANGED <<out, pc, degrees, returned>>

TemperatureUnitArgs == UnitArgs(temperature_legal_units, "f")
PressureUnitArgs == UnitArgs(pressure_legal_units, "in")
SpeedUnitArgs == UnitArgs(speed_legal_units, "kt")
DistanceUnitArgs == UnitArgs(distance_legal_units, "km")

NewTemperature ==
  /\ ctor = NoCtor
  /\ \E value \in Tokens, units \in TemperatureUnitArgs :
       Construct("temperature", value, units, None, temperature_init(value, units))

NewPressure ==
  /\ ctor = NoCtor
  /\ \E value \in Tokens, units \in PressureUnitArgs :
       Construct("pressure", value, units, None, pressure_init(value, units))

NewSpeed ==
  /\ ctor = NoCtor
  /\ \E value \in Tokens, units \in SpeedUnitArgs, gtlt \in GtltArgs :
       Construct("speed", value, units, gtlt, speed_init(value, units, gtlt))

NewDistance ==
  /\ ctor = NoCtor
  /\ \E value \in Tokens, units \in DistanceUnitArgs, gtlt \in GtltArgs :
       Construct("distance", value, units, gtlt, distance_init(value, units, gtlt))

NewDirection ==
  /\ ctor = NoCtor
  /\ \E d \in Tokens : Construct("direction", d, None, None, direction_init(d))

\* A call of value(units) with result res
CallValue(units, res) ==
  /\ out' = [op |-> "value", units |-> units, exc |-> res.exc, val |-> res.val,
             text |-> None]
  /\ UNCHANGED <<self, ctor, pc, degrees, returned>>

\* A call of string(units) with result res
CallString(units, res) ==
  /\ out' = [op |-> "string", units |-> units, exc |-> res.exc, val |-> None,
             text |-> res.val]
  /\ UNCHANGED <<self, ctor, pc, degrees, returned>>

\* The caller takes the outcome of its call and goes on
TakeResult ==
  /\ out # NoOut
  /\ out' = NoOut
  /\ UNCHANGED <<self, ctor, pc, degrees, returned>>

TemperatureValue ==
  /\ self.cls = "temperature" /\ out = NoOut
  /\ \E units \in TemperatureUnitArgs :
       CallValue(units, temperature_value(self, units))

TemperatureString ==
  /\ self.cls = "temperature" /\ out = NoOut
  /\ \E units \in TemperatureUnitArgs :
       CallString(units, temperature_string(self, units))

PressureValue ==
  /\ self.cls = "pressure" /\ out = NoOut
  /\ \E units \in PressureUnitArgs : CallValue(units, pressure_value(self, units))

PressureString ==
  /\ self.cls = "pressure" /\ out = NoOut
  /\ \E units \in PressureUnitArgs : CallString(units, pressure_string(self, units))

SpeedValue ==
  /\ self.cls = "speed" /\ out = NoOut
  /\ \E units \in SpeedUnitArgs : CallValue(units, speed_value(self, units))

SpeedString ==
  /\ self.cls = "speed" /\ out = NoOut
  /\ \E units \in SpeedUnitArgs : CallString(units, speed_string(self, units))

DistanceValue ==
  /\ self.cls = "distance" /\ out = NoOut
  /\ \E units \in DistanceUnitArgs : CallValue(units, distance_value(self, units))

DistanceString ==
  /\ self.cls = "distance" /\ out = NoOut
  /\ \E units \in DistanceUnitArgs : CallString(units, distance_string(self, units))

DirectionValue ==
  /\ self.cls = "direction" /\ out = NoOut
  /\ CallValue(None, direction_value(self))

DirectionString ==
  /\ self.cls = "direction" /\ out = NoOut
  /\ CallString(None, direction_string(self))

\* compass(), line 315: if not self._compass
CompassTest(r) ==
  /\ self.cls = "direction"
  /\ pc[r] = "idle"
  /\ pc' = [pc EXCEPT ![r] = IF Falsy(self.compass) THEN "round" ELSE "return"]
  /\ UNCHANGED <<self, ctor, out, degrees, returned>>

\* compass(), line 316
CompassRound(r) ==
  /\ pc[r] = "round"
  /\ degrees' = [degrees EXCEPT ![r] = Some(compass_round(self))]
  /\ pc' = [pc EXCEPT ![r] = "store"]
  /\ UNCHANGED <<self, ctor, out, returned>>

\* compass(), lines 317-323
CompassStore(r) ==
  /\ pc[r] = "store"
  /\ self' = compass_store(self, degrees[r][1])
  /\ pc' = [pc EXCEPT ![r] = "return"]
  /\ UNCHANGED <<ctor, out, degrees, returned>>

\* compass(), line 324: return self._compass
CompassReturn(r) ==
  /\ pc[r] = "return"
  /\ returned' = returned \cup {self.compass}
  /\ pc' = [pc EXCEPT ![r] = "idle"]
  /\ degrees' = [degrees EXCEPT ![r] = None]
  /\ UNCHANGED <<self, ctor, out>>

Next ==
  \/ NewTemperature
  \/ NewPressure
  \/ NewSpeed
  \/ NewDistance
  \/ NewDirection
  \/ TemperatureValue
  \/ TemperatureString
  \/ PressureValue
  \/ PressureString
  \/ SpeedValue
  \/ SpeedString
  \/ DistanceValue
  \/ DistanceString
  \/ DirectionValue
  \/ DirectionString
  \/ TakeResult
  \/ \E r \in Readers : CompassTest(r)
  \/ \E r \in Readers : CompassRound(r)
  \/ \E r \in Readers : CompassStore(r)
  \/ \E r \in Readers : CompassReturn(r)

Spec == Init /\ [][Next]_vars

----------------------------------------------------------------------------
(* The claims *)

LegalUnits(cls) ==
  IF cls = "temperature" THEN temperature_legal_units
  ELSE IF cls = "pressure" THEN pressure_legal_units
  ELSE IF cls = "speed" THEN speed_legal_units
  ELSE IF cls = "distance" THEN distance_legal_units
  ELSE {}

\* the token of a distance without its M or P prefix
Body(value) ==
  IF startswith(value, "M") \/ startswith(value, "P") THEN DropFirst(value) ELSE value

\* C1: a constructor call either raises and returns no instance, or returns
\* an instance whose numeric value is set and whose unit is legal for its
\* class; a temperature token that is neither a decimal nor M and a decimal
\* makes the constructor raise.
C1_TwoOutcomes ==
  /\ ctor.cls # "" =>
       \/ ctor.exc # "" /\ self = NoObj
       \/ /\ ctor.exc = ""
          /\ IF self.cls = "direction" THEN self.degrees # None
             ELSE self.value # None /\ self.units[1] \in LegalUnits(self.cls)
  /\ ( /\ ctor.cls = "temperature"
       /\ float(ctor.value) = None
       /\ ~(startswith(ctor.value, "M") /\ float(DropFirst(ctor.value)) # None) )
     => ctor.exc # ""

\* a units argument that names no legal unit of the class, in either case
IllegalUnit(cls, units) == units # None /\ upper(units[1]) \notin LegalUnits(cls)

\* C2: a unit symbol outside the class's legal set (the empty string too)
\* given to the constructor, to value() or to string() raises UnitsError.
C2_IllegalUnitRaises ==
  /\ (ctor.cls \notin {"", "direction"} /\ IllegalUnit(ctor.cls, ctor.units))
     => ctor.exc = "UnitsError"
  /\ (self.cls \notin {"", "direction"} /\ out.op # "" /\ IllegalUnit(self.cls, out.units))
     => out.exc = "UnitsError"

\* v in unit c converted to unit t through meters/second
SpeedThroughBase(c, t, v) ==
  LET base == IF c = "KT" THEN FMul(v, 128611, 250000)
              ELSE IF c = "KMH" THEN FDiv(v, 18, 5)
              ELSE IF c = "MPH" THEN FMul(v, 447, 1000)
              ELSE v
  IN  IF t = "KT" THEN FDiv(base, 128611, 250000)
      ELSE IF t = "KMH" THEN FMul(base, 18, 5)
      ELSE IF t = "MPH" THEN FDiv(base, 447, 1000)
      ELSE base

\* C3: for a speed in any legal unit c and any legal target t, value(t)
\* returns the value converted through meters/second.
C3_SpeedConversion ==
  ( /\ self.cls = "speed"
    /\ out.op = "value"
    /\ out.units # None
    /\ out.units[1] \in speed_legal_units )
  => /\ out.exc = ""
     /\ out.val = Some(SpeedThroughBase(self.units[1], out.units[1], self.value[1]))

\* C4: a distance token starting with M (P) is stripped of it and gets the
\* qualifier "<" (">"), whatever gtlt argument was given, also an invalid
\* one; without a prefix the gtlt argument is kept; string() starts with
\* "less than " ("greater than ") exactly when the qualifier is "<" (">").
C4_QualifierFromPrefix ==
  /\ ( /\ ctor.cls = "distance"
       /\ Body(ctor.value) # ctor.value
       /\ ~IllegalUnit("distance", ctor.units) \/ Falsy(ctor.units)
       /\ float(Body(ctor.value)) # None )
     => ( /\ ctor.exc = ""
          /\ self.value = float(Body(ctor.value))
          /\ self.gtlt = IF startswith(ctor.value, "M") THEN Some("<") ELSE Some(">") )
  /\ self.cls = "distance" =>
       /\ startswith(ctor.value, "M") => self.gtlt = Some("<")
       /\ startswith(ctor.value, "P") => self.gtlt = Some(">")
       /\ Body(ctor.value) = ctor.value => self.gtlt = ctor.gtlt
       /\ IF float(Body(ctor.value)) # None
          THEN self.value = float(Body(ctor.value))
          ELSE self.num = Some(int(FRACTION_RE(Body(ctor.value))[1].num))
       /\ (out.op = "string" /\ Falsy(out.units)) => out.exc = ""
       /\ (out.op = "string" /\ out.exc = "") =>
            /\ startswith(out.text[1], "less than ") <=> self.gtlt = Some("<")
            /\ startswith(out.text[1], "greater than ") <=> self.gtlt = Some(">")

\* C4: a token with the prefix M was given with the conflicting gtlt ">",
\* and string() rendered "less than ...".
C4_Witness ==
  /\ self.cls = "distance"
  /\ startswith(ctor.value, "M")
  /\ ctor.gtlt = Some(">")
  /\ out.op = "string"
  /\ out.exc = ""
  /\ startswith(out.text[1], "less than ")

UnitWord(u) ==
  IF u \in {"SM", "MI"} THEN " miles"
  ELSE IF u = "M" THEN " meters"
  ELSE IF u = "KM" THEN " km"
  ELSE " feet"

QualifierWords(gtlt) ==
  IF gtlt = Some(">") THEN "greater than "
  ELSE IF gtlt = Some("<") THEN "less than "
  ELSE ""

\* "<whole> <num>/<den>" when the whole part is not 0, else "<num>/<den>"
FractionText(df) ==
  (IF df.int # None /\ int(df.int[1]) # 0 THEN ToString(int(df.int[1])) \o " " ELSE "")
  \o ToString(int(df.num)) \o "/" \o ToString(int(df.den))

\* C5: a distance built from a fraction token in unit u renders, by string()
\* and string(u), the fraction (every numerator, 0 too) and the unit word of
\* u, and by string(t) for another legal t the number (one decimal for KM,
\* none otherwise) and the unit word of t.
C5_FractionRendering ==
  ( /\ self.cls = "distance"
    /\ FRACTION_RE(Body(ctor.value)) # None
    /\ out.op = "string"
    /\ Falsy(out.units) \/ out.units[1] \in distance_legal_units )
  => LET t  == IF Falsy(out.units) THEN self.units[1] ELSE out.units[1]
         df == FRACTION_RE(Body(ctor.value))[1]
     IN  /\ out.exc = ""
         /\ out.text[1] =
              QualifierWords(self.gtlt)
              \o (IF t = self.units[1] THEN FractionText(df)
                  ELSE Fmt(IF t = "KM" THEN 1 ELSE 0,
                           distance_value(self, Some(t)).val[1]))
              \o UnitWord(t)

\* the 16 names in the order of their degrees
Names16 ==
  <<"N", "NNE", "NE", "ENE", "E", "ESE", "SE", "SSE",
    "S", "SSW", "SW", "WSW", "W", "WNW", "NW", "NNW">>

\* the name of the 22.5 degree bucket nearest to d = x.n/x.d in [0, 360],
\* halves going up: the bucket index is floor(d/22.5 + 1/2), and 16 is N again
NearestName(x) == Names16[(((4 * x.n + 45 * x.d) \div (90 * x.d)) % 16) + 1]

\* C6: on a direction built from a number d in [0, 360] compass() returns
\* the name of the nearest 22.5 degree bucket, halves going to the higher
\* bucket and 360 to N, so one of the 16 names, and for d on a 22.5 degree
\* mark the name of that mark; on a direction built from a name it returns
\* that name.
C6_CompassName ==
  self.cls = "direction" =>
    /\ ctor.value \in DOMAIN compass_dirs => returned \subseteq {Some(ctor.value)}
    /\ (ctor.value \notin DOMAIN compass_dirs /\ IsFinite(float(ctor.value)[1])) =>
         /\ returned \subseteq {Some(NearestName(float(ctor.value)[1]))}
         /\ \A name \in DOMAIN compass_dirs :
              float(ctor.value)[1] = compass_dirs[name] => returned \subseteq {Some(name)}

\* C6: compass() has returned NNE for 11.25, which is halfway between the
\* buckets of N and NNE.
C6_Witness ==
  /\ self.cls = "direction"
  /\ ctor.value = "11.25"
  /\ returned = {Some("NNE")}

\* a token that float() reads as a number between 0 and 360
InRange(value) ==
  /\ float(value) # None
  /\ IsFinite(float(value)[1])
  /\ ~FLess(float(value)[1], 0, 1)
  /\ ~FGreater(float(value)[1], 360, 1)

\* C7: the direction constructor, given a token that is no compass name,
\* returns an instance exactly when the token is a number in [0, 360], and
\* raises otherwise; given a name it stores the degrees of that name, which
\* value() returns.
C7_DegreesInRange ==
  ctor.cls = "direction" =>
    /\ ctor.value \notin DOMAIN compass_dirs =>
         /\ ctor.exc = "" <=> InRange(ctor.value)
         /\ ctor.exc # "" => self = NoObj
    /\ ctor.value \in DOMAIN compass_dirs =>
         /\ ctor.exc = ""
         /\ self.degrees = Some(compass_dirs[ctor.value])
         /\ out.op = "value" => out.val = Some(compass_dirs[ctor.value])

\* the integer part of a matched fraction token, 0 when it has none
IntegerPart(df) == IF df.int = None THEN 0 ELSE int(df.int[1])

C9_Frame ==
  [][self.cls # "" =>
       /\ self' = [self EXCEPT !.compass = self'.compass]
       /\ self'.compass # self.compass =>
            /\ self.compass = None
            /\ self'.compass # None
            /\ self'.compass[1] \in DOMAIN compass_dirs
            /\ \E r \in Readers : pc[r] = "store" /\ pc'[r] = "return"]_vars

\* C9: compass() has written the memo of a direction built from a number and
\* has returned, and a call of string() has returned as well.
C9_Witness ==
  /\ self.cls = "direction"
  /\ ctor.value \notin DOMAIN compass_dirs
  /\ self.compass # None
  /\ returned # {}
  /\ out.op = "string"

\* C10: all calls of compass() on an instance, one after another or
\* interleaved, return one and the same of the 16 names, never None, and the
\* memo then holds that name.
C10_OneName ==
  self.cls = "direction" =>
    /\ Cardinality(returned) <= 1
    /\ \A x \in returned :
         /\ x # None
         /\ x[1] \in DOMAIN compass_dirs
         /\ self.compass = x

====
